---------------------------- MODULE Spec2Model ----------------------------
(***************************************************************************)
(* A model of bidbuy_analyzer.py: the loader (DataLoader), the analyzer    *)
(* (TrendAnalyzer), the narrative generator (ContentGenerator), the        *)
(* renderers (NewsletterGenerator, ReportGenerator) and main().            *)
(*                                                                         *)
(* Encoding of the data:                                                   *)
(*   - a string that the code inspects character by character (a column    *)
(*     name, a synonym) is a sequence of characters: an ASCII character is *)
(*     itself ("k"), a Hangul syllable is its romanisation ("sang");       *)
(*   - a table (pandas DataFrame) is a record [columns, rows]: columns is  *)
(*     the sequence of column names, rows a sequence of rows, each row a   *)
(*     sequence of cell values in column order;                            *)
(*   - a cell value is a natural number.  In a keyword or category column  *)
(*     the value NaN (0) is a missing cell and the values 1, 2, ... are    *)
(*     the distinct labels, numbered in their sort order (the order in     *)
(*     which groupby lists its keys);                                      *)
(*   - Python's None is the empty sequence; "no exception" is NoError.     *)
(***************************************************************************)
EXTENDS Integers, Sequences, FiniteSets, TLC

VARIABLES
    pc,          \* position in main(); "analyzer"/"returned" around a direct call
    args,        \* the parsed command line: input file, comparison file, --ai
    service,     \* how the external text-generation collaborator behaves
    df,          \* DataLoader.df / TrendAnalyzer.df of the input file
    column_map,  \* the role map returned by detect_columns (TrendAnalyzer.col)
    yoy_df,      \* the table of the comparison file
    summary,     \* the summary dict
    trend_text,  \* the narrative text
    written,     \* the output files written so far
    error,       \* the exception that ended the run, or None
    tried,       \* the encodings read_csv was called with, per load, in order
    ret          \* the last direct call of an analyzer method and its result

vars == <<pc, args, service, df, column_map, yoy_df, summary, trend_text,
          written, error, tried, ret>>

None == <<>>
NaN == 0

(***************************************************************************)
(* Bounds of the model.                                                    *)
(***************************************************************************)
MaxColumns == 3    \* columns of a table whose header is drawn freely
MaxRows == 3       \* rows of a table
MaxRisingRows == 2 \* rows of the current table of a period comparison
MaxPrevRows == 1   \* rows of the comparison table of a period comparison
MaxN == 2          \* the argument n of get_top_keywords and get_rising_keywords
MaxMainRows == 1   \* rows of the input table of a run of main()
MaxSummaryRows == 2 \* rows of a table summarised by generate_summary
MaxHtmlRows == 2   \* rows of a table whose summary is rendered by generate_html
NumKeywords == 2   \* distinct keyword labels
NumCategories == 2 \* distinct category labels

(***************************************************************************)
(* Generic helpers on sequences.                                           *)
(***************************************************************************)
Range(s) == {s[i] : i \in 1..Len(s)}

\* All sequences over S of length at most k.
SeqsUpTo(S, k) == UNION {[1..m -> S] : m \in 0..k}

\* Python's `k in col` for strings: k occurs in col as a contiguous substring.
Contains(col, k) ==
    \E i \in 0..(Len(col) - Len(k)) : SubSeq(col, i + 1, i + Len(k)) = k

(***************************************************************************)
(* DataLoader.detect_columns                                               *)
(***************************************************************************)
keyword_candidates ==
    << <<"geom", "saek", "eo">>,
       <<"k", "e", "y", "w", "o", "r", "d">>,
       <<"sang", "pum", "myeong">>,
       <<"p", "r", "o", "d", "u", "c", "t">>,
       <<"pum", "myeong">>,
       <<"je", "pum", "myeong">>,
       <<"i", "t", "e", "m">> >>

count_candidates ==
    << <<"geom", "saek", "ryang">>,
       <<"c", "o", "u", "n", "t">>,
       <<"ju", "mun", "ryang">>,
       <<"su", "ryang">>,
       <<"q", "u", "a", "n", "t", "i", "t", "y">>,
       <<"geon", "su">>,
       <<"hoet", "su">>,
       <<"o", "r", "d", "e", "r", "s">> >>

category_candidates ==
    << <<"ka", "te", "go", "ri">>,
       <<"c", "a", "t", "e", "g", "o", "r", "y">>,
       <<"bun", "ryu">>,
       <<"dae", "bun", "ryu">>,
       <<"jung", "bun", "ryu">> >>

date_candidates ==
    << <<"nal", "jja">>,
       <<"d", "a", "t", "e">>,
       <<"ju", "mun", "il">>,
       <<"geom", "saek", "il">>,
       <<"il", "ja">>,
       <<"o", "r", "d", "e", "r", "_", "d", "a", "t", "e">> >>

price_candidates ==
    << <<"ga", "gyeok">>,
       <<"p", "r", "i", "c", "e">>,
       <<"geum", "aek">>,
       <<"dan", "ga">>,
       <<"a", "m", "o", "u", "n", "t">>,
       <<"en">>,
       <<"j", "p", "y">>,
       <<"won">> >>

\* any(k in col for k in candidates)
AnyIn(col, candidates) ==
    \E j \in 1..Len(candidates) : Contains(col, candidates[j])

\* The loop `for col in columns: if any(...): column_map[role] = col; break`,
\* started at column i: the value column_map[role] has when the loop ends.
RECURSIVE ScanLast(_, _, _)
ScanLast(columns, candidates, i) ==
    IF i < 1 THEN None
    ELSE IF AnyIn(columns[i], candidates) THEN columns[i]
    ELSE ScanLast(columns, candidates, i - 1)

RECURSIVE ScanColumns(_, _, _)
ScanColumns(columns, candidates, i) ==
    IF i > Len(columns) THEN None
    ELSE IF AnyIn(columns[i], candidates) THEN columns[i]
    ELSE ScanColumns(columns, candidates, i + 1)

NoBreakDetect(columns) ==
    [keyword      |-> ScanLast(columns, keyword_candidates, Len(columns)),
     count        |-> ScanLast(columns, count_candidates, Len(columns)),
     category     |-> ScanLast(columns, category_candidates, Len(columns)),
     date         |-> ScanLast(columns, date_candidates, Len(columns)),
     price        |-> ScanLast(columns, price_candidates, Len(columns)),
     product_name |-> None]

detect_columns(columns) ==
    [keyword      |-> ScanColumns(columns, keyword_candidates, 1),
     count        |-> ScanColumns(columns, count_candidates, 1),
     category     |-> ScanColumns(columns, category_candidates, 1),
     date         |-> ScanColumns(columns, date_candidates, 1),
     price        |-> ScanColumns(columns, price_candidates, 1),
     product_name |-> None]

(***************************************************************************)
(* DataLoader.load.  A file is a record [ext, parses, table]: ext is the   *)
(* suffix of its path, parses the set of encodings with which              *)
(* pd.read_csv reads it without raising, table what the read returns.      *)
(***************************************************************************)
UpperCase == <<"A", "B", "C", "D", "E", "F", "G", "H", "I", "J", "K", "L", "M",
               "N", "O", "P", "Q", "R", "S", "T", "U", "V", "W", "X", "Y", "Z">>
LowerCase == <<"a", "b", "c", "d", "e", "f", "g", "h", "i", "j", "k", "l", "m",
               "n", "o", "p", "q", "r", "s", "t", "u", "v", "w", "x", "y", "z">>

\* str.lower(), one character
LowerChar(c) ==
    IF \E i \in 1..Len(UpperCase) : UpperCase[i] = c
    THEN LowerCase[CHOOSE i \in 1..Len(UpperCase) : UpperCase[i] = c]
    ELSE c

Lower(name) == [i \in 1..Len(name) |-> LowerChar(name[i])]

\* str.strip() on a name
RECURSIVE StripName(_)
StripName(name) ==
    IF name = <<>> THEN <<>>
    ELSE IF Head(name) = " " THEN StripName(Tail(name))
    ELSE IF name[Len(name)] = " " THEN StripName(SubSeq(name, 1, Len(name) - 1))
    ELSE name

\* self.df.columns = self.df.columns.str.strip().str.lower()
NormalizeColumns(table) ==
    [columns |-> [i \in 1..Len(table.columns) |-> Lower(StripName(table.columns[i]))],
     rows |-> table.rows]

Encodings == <<"utf-8", "cp949", "euc-kr">>

ExtXlsx == <<".", "x", "l", "s", "x">>
ExtXls == <<".", "x", "l", "s">>
ExtCsv == <<".", "c", "s", "v">>

\* The loop over the encodings from position i on: the encodings tried, in
\* order, up to and including the first that parses.
RECURSIVE TryEncodings(_, _)
TryEncodings(file, i) ==
    IF i > Len(Encodings) THEN <<>>
    ELSE IF Encodings[i] \in file.parses THEN <<Encodings[i]>>
    ELSE <<Encodings[i]>> \o TryEncodings(file, i + 1)

NoError == [type |-> "none", message |-> "none"]

\* The value of ret before any call on the analyzer has returned.
NoCall == [op |-> "none"]

\* The outcome of DataLoader(path).load(): the table (None when the call
\* raised), the encodings tried and the exception raised.
load(file) ==
    LET file_ext == Lower(file.ext)
        tried_encodings == TryEncodings(file, 1)
        parsed == tried_encodings # <<>>
                  /\ tried_encodings[Len(tried_encodings)] \in file.parses
    IN  IF file_ext \in {ExtXlsx, ExtXls}
        THEN [df |-> NormalizeColumns(file.table), tried |-> <<>>, error |-> NoError]
        ELSE IF file_ext = ExtCsv
        THEN IF parsed
             THEN [df |-> NormalizeColumns(file.table), tried |-> tried_encodings,
                   error |-> NoError]
             \* self.df is still None and self.df.columns raises
             ELSE [df |-> None, tried |-> tried_encodings,
                   error |-> [type |-> "AttributeError",
                              message |-> "'NoneType' object has no attribute 'columns'"]]
        ELSE [df |-> None, tried |-> <<>>,
              error |-> [type |-> "ValueError", message |-> "unsupported file format"]]

(***************************************************************************)
(* Tables.                                                                 *)
(***************************************************************************)
\* Column names used by the tables of the model (already normalised).
SangPumMyeong == <<"sang", "pum", "myeong">>      \* keyword column of the spec's scenario
GeomSaekRyang == <<"geom", "saek", "ryang">>      \* count column of the spec's scenario
KaTeGoRi == <<"ka", "te", "go", "ri">>            \* a category column

\* df[name]: the cells of the column called name, in row order.
ColumnIndex(table, name) ==
    CHOOSE i \in 1..Len(table.columns) : table.columns[i] = name

Column(table, name) ==
    [r \in 1..Len(table.rows) |-> table.rows[r][ColumnIndex(table, name)]]

HasColumn(table, name) == name \in Range(table.columns)

Min(a, b) == IF a <= b THEN a ELSE b

\* Series.head(n) / DataFrame.head(n) for n >= 0.
HeadN(s, n) == SubSeq(s, 1, Min(n, Len(s)))

\* The sorted distinct non-missing values of a key column: groupby's keys.
GroupKeys(keys) == Range(keys) \ {NaN}

\* sum of values[r] over the rows r (up to row i) whose key is k
RECURSIVE GroupSum(_, _, _, _)
GroupSum(keys, values, k, i) ==
    IF i = 0 THEN 0
    ELSE GroupSum(keys, values, k, i - 1)
         + (IF keys[i] = k THEN values[i] ELSE 0)

\* The set S of integers as the sequence of its elements in ascending order.
RECURSIVE Ascending(_)
Ascending(S) ==
    IF S = {} THEN <<>>
    ELSE LET m == CHOOSE x \in S : \A y \in S : x <= y
         IN  <<m>> \o Ascending(S \ {m})

\* df.groupby(key)[value].sum(): one entry per key, in ascending key order;
\* rows whose key is missing are dropped.
GroupBySum(table, key, value) ==
    LET keys == Column(table, key)
        values == Column(table, value)
        order == Ascending(GroupKeys(keys))
    IN  [j \in 1..Len(order) |->
            [index |-> order[j],
             value |-> GroupSum(keys, values, order[j], Len(keys))]]

\* number of rows (up to row i) whose key is k
RECURSIVE Occurrences(_, _, _)
Occurrences(keys, k, i) ==
    IF i = 0 THEN 0
    ELSE Occurrences(keys, k, i - 1) + (IF keys[i] = k THEN 1 ELSE 0)

\* The permutations of 1..n.
Permutations1(n) == {p \in [1..n -> 1..n] : \A i, j \in 1..n : i # j => p[i] # p[j]}

\* Series.sort_values(ascending=False) with the default kind='quicksort', which
\* is not a stable sort: every arrangement of the entries by non-increasing
\* value is a possible outcome.
SortValuesAscending(series) ==
    {[i \in 1..Len(series) |-> series[p[i]]] : p \in
        {q \in Permutations1(Len(series)) :
            \A i \in 1..(Len(series) - 1) : series[q[i]].value <= series[q[i + 1]].value}}

SortValuesDescending(series) ==
    {[i \in 1..Len(series) |-> series[p[i]]] : p \in
        {q \in Permutations1(Len(series)) :
            \A i \in 1..(Len(series) - 1) : series[q[i]].value >= series[q[i + 1]].value}}

\* df[key].value_counts(): the number of rows per distinct non-missing value,
\* sorted by sort_values(ascending=False) like any other Series.
ValueCounts(table, key) ==
    LET keys == Column(table, key)
        order == Ascending(GroupKeys(keys))
    IN  SortValuesDescending(
            [j \in 1..Len(order) |->
                [index |-> order[j],
                 value |-> Occurrences(keys, order[j], Len(keys))]])

\* reset_index() and the renaming of the two columns to (a, b).
KeywordFrame(series) ==
    [i \in 1..Len(series) |-> [keyword |-> series[i].index, count |-> series[i].value]]

CategoryFrame(series) ==
    [i \in 1..Len(series) |-> [category |-> series[i].index, count |-> series[i].value]]

\* Series.reset_index() on the sums of a groupby raises ValueError ("cannot
\* insert ..., already exists") when the grouping column of the role is also
\* the count column: the index and the values then carry the same name.
ResetIndexRaises(col, role) ==
    col[role] # None /\ col.count # None /\ col[role] = col.count

ValueError == [type |-> "ValueError", message |-> "cannot insert, already exists"]

(***************************************************************************)
(* TrendAnalyzer.get_top_keywords(n): the set of results the call can      *)
(* return (an empty DataFrame is the empty sequence).                      *)
(***************************************************************************)
TopKeywordsAlwaysFrequency(table, col, n) ==
    IF col.keyword # None
    THEN {KeywordFrame(HeadN(s, n)) : s \in ValueCounts(table, col.keyword)}
    ELSE {<<>>}

get_top_keywords(table, col, n) ==
    IF col.keyword = None \/ col.count = None
    THEN IF col.keyword # None
         THEN {KeywordFrame(HeadN(s, n)) : s \in ValueCounts(table, col.keyword)}
         ELSE {<<>>}
    ELSE {KeywordFrame(HeadN(s, n)) :
            s \in SortValuesDescending(GroupBySum(table, col.keyword, col.count))}

(***************************************************************************)
(* TrendAnalyzer.get_category_stats(): the set of results the call can     *)
(* return.                                                                 *)
(***************************************************************************)
CategoryStatsAlwaysFrequency(table, col) ==
    IF col.category = None
    THEN {<<>>}
    ELSE {CategoryFrame(s) :
            s \in UNION {SortValuesDescending(v) : v \in ValueCounts(table, col.category)}}

get_category_stats(table, col) ==
    IF col.category = None
    THEN {<<>>}
    ELSE {CategoryFrame(s) :
            s \in UNION {SortValuesDescending(stats) :
                    stats \in IF col.count # None
                              THEN {GroupBySum(table, col.category, col.count)}
                              ELSE ValueCounts(table, col.category)}}

(***************************************************************************)
(* TrendAnalyzer.get_rising_keywords(prev_df, n).  A change rate is kept   *)
(* in tenths of a percent (change_rate10 = 10 * change_rate), which is     *)
(* exact for a value rounded to one decimal.                               *)
(***************************************************************************)
\* The keyword counts of one table: groupby-sum, or value_counts (whose order
\* does not matter here: the Series are aligned on their index).
KeywordAggregate(table, col) ==
    IF col.count # None
    THEN GroupBySum(table, col.keyword, col.count)
    ELSE CHOOSE s \in ValueCounts(table, col.keyword) : TRUE

\* series[k] for an index value k, NaN-filled with 0 by fillna(0).
ValueAt(series, k) ==
    IF \E i \in 1..Len(series) : series[i].index = k
    THEN series[CHOOSE i \in 1..Len(series) : series[i].index = k].value
    ELSE 0

IndexOf(series) == {series[i].index : i \in 1..Len(series)}

\* round(num / den, 0) for den > 0, halves to the even neighbour (numpy's round).
RoundHalfEven(num, den) ==
    LET q == num \div den
        r == num - q * den
    IN  IF 2 * r < den THEN q
        ELSE IF 2 * r > den THEN q + 1
        ELSE IF q % 2 = 0 THEN q ELSE q + 1

\* ((current - previous) / previous.replace(0, 1) * 100).round(1), in tenths.
ChangeRateTruncated(current, previous) ==
    ((current - previous) * 1000) \div (IF previous = 0 THEN 1 ELSE previous)

ChangeRate10(current, previous) ==
    RoundHalfEven((current - previous) * 1000, IF previous = 0 THEN 1 ELSE previous)

\* pd.DataFrame({'current': ..., 'previous': ...}).fillna(0) with its
\* change_rate column: one row per keyword of either table, in index order.
Combined(table, prev, col) ==
    LET current == KeywordAggregate(table, col)
        previous == KeywordAggregate(prev, col)
        order == Ascending(IndexOf(current) \cup IndexOf(previous))
    IN  [j \in 1..Len(order) |->
            [keyword |-> order[j],
             current |-> ValueAt(current, order[j]),
             previous |-> ValueAt(previous, order[j]),
             change_rate10 |-> ChangeRate10(ValueAt(current, order[j]),
                                            ValueAt(previous, order[j]))]]

\* The values of a column of counts in ascending order (with repetitions).
RECURSIVE SortedValues(_, _)
SortedValues(S, f) ==
    IF S = {} THEN <<>>
    ELSE LET m == CHOOSE x \in S : \A y \in S : f[x] <= f[y]
         IN  <<f[m]>> \o SortedValues(S \ {m}, f)

\* x >= values.quantile(0.3), pandas' default linear interpolation: with v the
\* N sorted values and h = 0.3 * (N - 1), the quantile is
\* v[floor(h)] + (h - floor(h)) * (v[floor(h) + 1] - v[floor(h)]) (0-based).
\* The comparison is made on ten times both sides.  The quantile of no values
\* is NaN and every comparison with it is false.
AtLeastQuantile30(x, values) ==
    LET N == Len(values)
        v == SortedValues(1..N, values)
        lo == (3 * (N - 1)) \div 10
        frac10 == 3 * (N - 1) - 10 * lo
    IN  /\ N > 0
        /\ 10 * x >= 10 * v[lo + 1]
                     + (IF frac10 = 0 THEN 0 ELSE frac10 * (v[lo + 2] - v[lo + 1]))

\* frame[mask]: the rows i of the frame with mask[i] true, in order.
RECURSIVE Filter(_, _, _)
Filter(frame, mask, i) ==
    IF i > Len(frame) THEN <<>>
    ELSE (IF mask[i] THEN <<frame[i]>> ELSE <<>>) \o Filter(frame, mask, i + 1)

\* DataFrame.sort_values('change_rate', ascending=False): not a stable sort.
SortByChangeRateDescending(frame) ==
    {[i \in 1..Len(frame) |-> frame[p[i]]] : p \in
        {q \in Permutations1(Len(frame)) :
            \A i \in 1..(Len(frame) - 1) :
                frame[q[i]].change_rate10 >= frame[q[i + 1]].change_rate10}}

RisingByRateOnly(combined) ==
    Filter(combined,
           [i \in 1..Len(combined) |-> combined[i].change_rate10 >= 1000], 1)

\* The rows of combined that pass the two conditions, in index order.
Rising(combined) ==
    LET currents == [i \in 1..Len(combined) |-> combined[i].current]
        mask == [i \in 1..Len(combined) |->
                    /\ combined[i].change_rate10 >= 1000
                    /\ AtLeastQuantile30(combined[i].current, currents)]
    IN  Filter(combined, mask, 1)

\* The set of results the call can return.
get_rising_keywords(table, prev, col, n) ==
    IF col.keyword = None
    THEN {<<>>}
    ELSE {HeadN(s, n) : s \in SortByChangeRateDescending(Rising(Combined(table, prev, col)))}

(***************************************************************************)
(* TrendAnalyzer.generate_summary(): the set of summaries the call can     *)
(* return.  A dict is a record; the keys top_1_keyword and top_1_count are *)
(* in its domain only when the code sets them.                             *)
(***************************************************************************)
SummaryTopN == 20

\* datetime.now().strftime('%Y-%m-%d'): the date of the run.
AnalysisDate == "2026-01-01"

SummaryTopFromLast(table, col) ==
    {LET base == [total_records |-> Len(table.rows),
                  top_keywords |-> tk,
                  category_stats |-> cs,
                  analysis_date |-> AnalysisDate]
     IN  IF tk # <<>>
         THEN base @@ [top_1_keyword |-> tk[Len(tk)].keyword,
                       top_1_count |-> tk[Len(tk)].count]
         ELSE base :
     tk \in get_top_keywords(table, col, SummaryTopN),
     cs \in get_category_stats(table, col)}

generate_summary(table, col) ==
    {LET base == [total_records |-> Len(table.rows),
                  top_keywords |-> tk,
                  category_stats |-> cs,
                  analysis_date |-> AnalysisDate]
     IN  IF tk # <<>>
         THEN base @@ [top_1_keyword |-> tk[1].keyword,
                       top_1_count |-> tk[1].count]
         ELSE base :
     tk \in get_top_keywords(table, col, SummaryTopN),
     cs \in get_category_stats(table, col)}

(***************************************************************************)
(* ContentGenerator.  A text is the sequence of its pieces: each fixed     *)
(* sentence of the template is one piece, each interpolated value is the   *)
(* piece ToString(value), and white space between sentences is the piece   *)
(* " ".                                                                    *)
(***************************************************************************)
\* summary.get(key, default)
Get(dict, key, default) == IF key \in DOMAIN dict THEN dict[key] ELSE default

\* ', '.join(items)
RECURSIVE Join(_, _)
Join(items, i) ==
    IF i > Len(items) THEN <<>>
    ELSE (IF i > 1 THEN <<", ">> ELSE <<>>) \o <<items[i]>> \o Join(items, i + 1)

\* str.strip(): the text without the white space at its two ends.
RECURSIVE Strip(_)
Strip(text) ==
    IF text = <<>> THEN <<>>
    ELSE IF Head(text) = " " THEN Strip(Tail(text))
    ELSE IF text[Len(text)] = " " THEN Strip(SubSeq(text, 1, Len(text) - 1))
    ELSE text

\* ContentGenerator._generate_template
TemplateTopKeywords == 5
TemplateTopCategories == 3

_generate_template(s) ==
    LET top_keywords == HeadN(Get(s, "top_keywords", <<>>), TemplateTopKeywords)
        categories == HeadN(Get(s, "category_stats", <<>>), TemplateTopCategories)
        keyword_list == Join([i \in 1..Len(top_keywords) |->
                                ToString(top_keywords[i].keyword)], 1)
        category_text ==
            IF categories # <<>>
            THEN <<"By category, '", ToString(categories[1].category),
                   "' receives the most attention.">>
            ELSE <<>>
        top_1_keyword == IF "top_1_keyword" \in DOMAIN s
                         THEN ToString(s.top_1_keyword) ELSE "-"
        top_1_count == IF "top_1_count" \in DOMAIN s
                       THEN ToString(s.top_1_count) ELSE ToString(0)
    IN  Strip(<<" ", "We analysed the search trends of this period.", " ",
                "The most searched keyword is '", top_1_keyword, "', ",
                "with a total of ", top_1_count, " searches.", " ",
                "TOP 5 popular keywords: ">> \o keyword_list \o <<" ">>
              \o category_text
              \o <<" ", "Meet the popular products selected from 20 years of data",
                   "at Bidbuy Select!", " ">>)

\* The behaviours of the external text-generation collaborator: it answers,
\* or it fails at the import, at the construction of the client, at the
\* request, or by a response without a text block.
ServiceOutcomes ==
    {"ok", "import_error", "client_error", "request_error", "malformed_response"}

\* The text of a well-formed response.
AiText == <<"text written by the external service">>

\* ContentGenerator._generate_with_ai: every Exception raised in the try block
\* is caught and answered with the template.
_generate_with_ai(s, outcome) ==
    IF outcome = "ok" THEN AiText ELSE _generate_template(s)

\* ContentGenerator.generate_trend_text
generate_trend_text(use_ai, s, outcome) ==
    IF use_ai THEN _generate_with_ai(s, outcome) ELSE _generate_template(s)

(***************************************************************************)
(* The tables the specifications start from.                               *)
(***************************************************************************)
\* The values a cell of the column called name can hold: counts is the set of
\* values of a count column, missing is {NaN} when label cells may be missing
\* and {} when every label cell is filled.  A column whose (normalised) name
\* holds a count synonym holds counts, one whose name holds a keyword synonym
\* holds keyword labels, any other column holds category labels.
Cells(name, counts, missing) ==
    IF AnyIn(Lower(StripName(name)), count_candidates) THEN counts
    ELSE IF AnyIn(Lower(StripName(name)), keyword_candidates)
    THEN missing \cup (1..NumKeywords)
    ELSE missing \cup (1..NumCategories)

\* The rows a table with this header can hold.
RECURSIVE RowsOf(_, _, _)
RowsOf(header, counts, missing) ==
    IF header = <<>> THEN {<<>>}
    ELSE {<<v>> \o rest : v \in Cells(Head(header), counts, missing),
                          rest \in RowsOf(Tail(header), counts, missing)}

\* The tables with this header and at most maxRows rows; a table without
\* columns has no rows.
TablesOf(header, counts, missing, maxRows) ==
    {[columns |-> header, rows |-> rs] :
        rs \in IF header = <<>> THEN {<<>>}
               ELSE SeqsUpTo(RowsOf(header, counts, missing), maxRows)}

KeywordCounts == {10, 30, 50}
CategoryCounts == {0, 1, 2}

RisingCounts == {3, 5, 20}

RisingHeaders == {<<SangPumMyeong, GeomSaekRyang>>, <<SangPumMyeong>>, <<GeomSaekRyang>>}

\* Column names that hold a synonym of two roles.
ItemCount == <<"i", "t", "e", "m", "_", "c", "o", "u", "n", "t">>
CategoryCount ==
    <<"c", "a", "t", "e", "g", "o", "r", "y", "_", "c", "o", "u", "n", "t">>

KeywordHeaders ==
    {<<>>, <<SangPumMyeong>>, <<GeomSaekRyang>>, <<SangPumMyeong, GeomSaekRyang>>,
     <<ItemCount>>}

CategoryHeaders ==
    {<<>>, <<KaTeGoRi>>, <<GeomSaekRyang>>, <<KaTeGoRi, GeomSaekRyang>>,
     <<CategoryCount>>}

\* A TrendAnalyzer constructed on a loaded table (one of these headers, cells
\* of a count column among counts) and the role map detected for its header.
InitAnalyzer(headers, counts) ==
    /\ pc = "analyzer"
    /\ args = None
    /\ service = "ok"
    /\ \E h \in headers :
          /\ column_map = detect_columns(h)
          /\ df \in TablesOf(h, counts, {NaN}, MaxRows)
    /\ yoy_df = None
    /\ summary = None
    /\ trend_text = None
    /\ written = {}
    /\ error = NoError
    /\ tried = [input |-> <<>>, yoy |-> <<>>]
    /\ ret = NoCall

(***************************************************************************)
(* NewsletterGenerator.generate_html raises ZeroDivisionError in           *)
(* int((cat['count'] / max_count) * 100) when there are categories and the *)
(* first of them has count 0.                                              *)
(***************************************************************************)
HtmlTopCategories == 5

HtmlRaises(s) ==
    LET categories == HeadN(Get(s, "category_stats", <<>>), HtmlTopCategories)
    IN  categories # <<>> /\ categories[1].count = 0

(***************************************************************************)
(* The width of a category bar, int((count / max_count) * 100), as IEEE    *)
(* double arithmetic computes it for naturals 0 <= count <= max_count,     *)
(* max_count > 0 (the counts of category_stats are in descending order).   *)
(* The quotient is rounded to 53 significant bits, the product by 100 is   *)
(* rounded again, and int() truncates.  When 100 * count / max_count is    *)
(* not an integer the roundings cannot cross an integer for counts of this *)
(* size; when it is an integer X and the rounded quotient lies below       *)
(* count / max_count by more than half the spacing of the doubles below X, *)
(* the product is below X and the width is X - 1.                          *)
(***************************************************************************)
RECURSIVE Pow2(_)
Pow2(n) == IF n = 0 THEN 1 ELSE 2 * Pow2(n - 1)

\* 2^e modulo m
RECURSIVE PowMod(_, _)
PowMod(e, m) == IF e = 0 THEN 1 % m ELSE (2 * PowMod(e - 1, m)) % m

\* The least j >= from with count * 2^j >= max_count.
RECURSIVE ScaleExp(_, _, _)
ScaleExp(count, max_count, from) ==
    IF count * Pow2(from) >= max_count THEN from
    ELSE ScaleExp(count, max_count, from + 1)

\* floor(log2(x)), x >= 1
RECURSIVE Log2Floor(_)
Log2Floor(x) == IF x < 2 THEN 0 ELSE 1 + Log2Floor(x \div 2)

ExactPercent(count, max_count) == (100 * count) \div max_count

FloatWidth(count, max_count) ==
    IF count = 0 \/ (100 * count) % max_count # 0
    THEN ExactPercent(count, max_count)
    ELSE LET X == ExactPercent(count, max_count)
             \* the quotient is M * 2^-e with M of 53 bits
             e == 52 + ScaleExp(count, max_count, 0)
             \* remainder of count * 2^e by max_count, and parity of the quotient
             r == (count * PowMod(e, max_count)) % max_count
             odd == (count * PowMod(e, 2 * max_count)) % (2 * max_count) >= max_count
             roundsDown == 2 * r < max_count \/ (2 * r = max_count /\ ~odd)
             k == Log2Floor(X)
             half == e + k - 53 - (IF X = Pow2(k) THEN 1 ELSE 0)
         IN  IF r # 0 /\ roundsDown /\ 100 * r > max_count * Pow2(half)
             THEN X - 1
             ELSE X

(***************************************************************************)
(* NewsletterGenerator.generate_html(): the exception it raises, if any,   *)
(* and the document: the rows of the keyword table, the category bars, and *)
(* whether the category section is present.                                *)
(***************************************************************************)
HtmlTopKeywords == 10

generate_html(s, text) ==
    LET top_keywords == HeadN(Get(s, "top_keywords", <<>>), HtmlTopKeywords)
        categories == HeadN(Get(s, "category_stats", <<>>), HtmlTopCategories)
        keyword_rows == [i \in 1..Len(top_keywords) |->
                            [rank |-> i, keyword |-> top_keywords[i].keyword,
                             count |-> top_keywords[i].count]]
        max_count == categories[1].count
        category_bars == [i \in 1..Len(categories) |->
                             [category |-> categories[i].category,
                              count |-> categories[i].count,
                              width |-> FloatWidth(categories[i].count, max_count)]]
    IN  IF categories # <<>> /\ max_count = 0
        THEN [error |-> [type |-> "ZeroDivisionError", message |-> "division by zero"],
              html |-> None]
        ELSE [error |-> NoError,
              html |-> [keyword_rows |-> keyword_rows,
                        category_bars |-> IF categories # <<>> THEN category_bars
                                          ELSE <<>>,
                        category_section |-> categories # <<>>,
                        trend_text |-> text]]

(***************************************************************************)
(* main(): one action per statement that loads, computes or writes.        *)
(***************************************************************************)
RisingDefaultN == 10

\* loader = DataLoader(args.input); df = loader.load()
MainLoad ==
    /\ pc = "start"
    /\ LET r == load(args.input)
       IN  /\ tried' = [tried EXCEPT !.input = r.tried]
           /\ IF r.error # NoError
              THEN /\ pc' = "aborted"
                   /\ error' = r.error
                   /\ df' = df
              ELSE /\ pc' = "loaded"
                   /\ error' = error
                   /\ df' = r.df
    /\ UNCHANGED <<args, service, column_map, yoy_df, summary, trend_text,
                   written, ret>>

\* column_map = loader.detect_columns()
MainDetect ==
    /\ pc = "loaded"
    /\ pc' = "detected"
    /\ column_map' = detect_columns(df.columns)
    /\ UNCHANGED <<args, service, df, yoy_df, summary, trend_text, written,
                   error, tried, ret>>

\* analyzer = TrendAnalyzer(df, column_map); summary = analyzer.generate_summary()
MainAnalyze ==
    /\ pc = "detected"
    /\ IF \/ ResetIndexRaises(column_map, "keyword")
          \/ ResetIndexRaises(column_map, "category")
       THEN /\ pc' = "aborted"
            /\ error' = ValueError
            /\ summary' = summary
       ELSE /\ pc' = "analyzed"
            /\ error' = error
            /\ summary' \in generate_summary(df, column_map)
    /\ UNCHANGED <<args, service, df, column_map, yoy_df, trend_text, written,
                   tried, ret>>

\* if args.yoy: yoy_loader = DataLoader(args.yoy); yoy_df = yoy_loader.load()
MainLoadYoy ==
    /\ pc = "analyzed"
    /\ args.yoy # None
    /\ LET r == load(args.yoy)
       IN  /\ tried' = [tried EXCEPT !.yoy = r.tried]
           /\ IF r.error # NoError
              THEN /\ pc' = "aborted"
                   /\ error' = r.error
                   /\ yoy_df' = yoy_df
              ELSE /\ pc' = "yoy_loaded"
                   /\ error' = error
                   /\ yoy_df' = r.df
    /\ UNCHANGED <<args, service, df, column_map, summary, trend_text, written, ret>>

\* rising = analyzer.get_rising_keywords(yoy_df)
\* summary['rising_keywords'] = rising.to_dict('records') if not rising.empty else []
\* The lookup of a role's column in the comparison table raises KeyError when
\* that table has no such column.
MainRising ==
    /\ pc = "yoy_loaded"
    /\ IF /\ column_map.keyword # None
          /\ \/ ~HasColumn(yoy_df, column_map.keyword)
             \/ column_map.count # None /\ ~HasColumn(yoy_df, column_map.count)
       THEN /\ pc' = "aborted"
            /\ error' = [type |-> "KeyError", message |-> "column of the role map"]
            /\ summary' = summary
       ELSE /\ pc' = "compared"
            /\ error' = error
            /\ \E r \in get_rising_keywords(df, yoy_df, column_map, RisingDefaultN) :
                  summary' = summary @@ [rising_keywords |-> r]
    /\ UNCHANGED <<args, service, df, column_map, yoy_df, trend_text, written,
                   tried, ret>>

\* content_gen = ContentGenerator(use_ai=args.ai)
\* trend_text = content_gen.generate_trend_text(summary)
MainGenerateText ==
    /\ \/ pc = "analyzed" /\ args.yoy = None
       \/ pc = "compared"
    /\ pc' = "text_done"
    /\ trend_text' = generate_trend_text(args.ai, summary, service)
    /\ UNCHANGED <<args, service, df, column_map, yoy_df, summary, written,
                   error, tried, ret>>

MainSaveHtmlBeforeComparison ==
    /\ pc = "analyzed"
    /\ "newsletter.html" \notin written
    /\ written' = written \cup {"newsletter.html"}
    /\ UNCHANGED <<pc, args, service, df, column_map, yoy_df, summary, trend_text,
                   error, tried, ret>>

\* newsletter = NewsletterGenerator(summary, trend_text); newsletter.save_html(...)
\* save_html builds the whole document before it opens the file.
MainSaveHtml ==
    /\ pc = "text_done"
    /\ IF HtmlRaises(summary)
       THEN /\ pc' = "aborted"
            /\ error' = [type |-> "ZeroDivisionError", message |-> "division by zero"]
            /\ written' = written
       ELSE /\ pc' = "html_saved"
            /\ error' = error
            /\ written' = written \cup {"newsletter.html"}
    /\ UNCHANGED <<args, service, df, column_map, yoy_df, summary, trend_text,
                   tried, ret>>

\* report = ReportGenerator(summary, analyzer); report.save_excel(...)
MainSaveExcel ==
    /\ pc = "html_saved"
    /\ pc' = "excel_saved"
    /\ written' = written \cup {"report.xlsx"}
    /\ UNCHANGED <<args, service, df, column_map, yoy_df, summary, trend_text,
                   error, tried, ret>>

\* report.save_json(...)
MainSaveJson ==
    /\ pc = "excel_saved"
    /\ pc' = "done"
    /\ written' = written \cup {"data.json"}
    /\ UNCHANGED <<args, service, df, column_map, yoy_df, summary, trend_text,
                   error, tried, ret>>

MainNext ==
    \/ MainLoad
    \/ MainDetect
    \/ MainAnalyze
    \/ MainLoadYoy
    \/ MainRising
    \/ MainGenerateText
    \/ MainSaveHtml
    \/ MainSaveExcel
    \/ MainSaveJson

(***************************************************************************)
(* The command lines main() starts from.                                   *)
(***************************************************************************)
MainCounts == {0, 5}

\* Headers as they stand in a file, before load() normalises them.
RawKeyword == <<" ", "K", "e", "y", "w", "o", "r", "d">>
RawCount == <<"C", "O", "U", "N", "T", " ">>
RawCategory == <<"C", "a", "t", "e", "g", "o", "r", "y">>

MainTables ==
    TablesOf(<<RawKeyword, RawCount, RawCategory>>, MainCounts, {}, MaxMainRows)
    \cup TablesOf(<<RawKeyword>>, MainCounts, {}, MaxMainRows)
    \cup TablesOf(<<ItemCount>>, MainCounts, {}, MaxMainRows)

\* The sets of encodings that can parse one file: euc-kr is a subset of cp949.
ParseSets ==
    {p \in SUBSET Range(Encodings) : "euc-kr" \in p => "cp949" \in p}

ExtCsvUpper == <<".", "C", "S", "V">>
ExtTxt == <<".", "t", "x", "t">>

OneRowTable ==
    [columns |-> <<RawKeyword, RawCount, RawCategory>>, rows |-> << <<1, 5, 1>> >>]

CountOnlyTable == [columns |-> <<RawCount>>, rows |-> << <<5>> >>]

InputFiles ==
    {[ext |-> ExtXlsx, parses |-> {}, table |-> t] : t \in MainTables}
    \cup {[ext |-> ExtCsvUpper, parses |-> p, table |-> OneRowTable] : p \in ParseSets}
    \cup {[ext |-> ExtTxt, parses |-> {}, table |-> OneRowTable]}

YoyFiles ==
    {[ext |-> ExtXls, parses |-> {}, table |-> OneRowTable],
     [ext |-> ExtXlsx, parses |-> {}, table |-> CountOnlyTable],
     [ext |-> ExtCsv, parses |-> {"cp949", "euc-kr"}, table |-> OneRowTable],
     [ext |-> ExtCsv, parses |-> {}, table |-> OneRowTable],
     [ext |-> ExtTxt, parses |-> {}, table |-> OneRowTable]}

InitMain ==
    /\ pc = "start"
    /\ args \in [input : InputFiles, yoy : {None} \cup YoyFiles, ai : BOOLEAN]
    /\ service \in IF args.ai THEN ServiceOutcomes ELSE {"ok"}
    /\ df = None
    /\ column_map = None
    /\ yoy_df = None
    /\ summary = None
    /\ trend_text = None
    /\ written = {}
    /\ error = NoError
    /\ tried = [input |-> <<>>, yoy |-> <<>>]
    /\ ret = NoCall

SpecMain == InitMain /\ [][MainNext]_vars

\* The calls below are the first call made on the analyzer: a call leaves the
\* analyzer as it is, so every call is the first call of some behaviour.

\* A call analyzer.get_top_keywords(n).
CallGetTopKeywords ==
    /\ pc = "analyzer"
    /\ IF ResetIndexRaises(column_map, "keyword")
       THEN /\ pc' = "raised"
            /\ error' = ValueError
            /\ ret' = ret
       ELSE /\ pc' = "returned"
            /\ error' = error
            /\ \E n \in 0..MaxN :
                 \E r \in get_top_keywords(df, column_map, n) :
                    ret' = [op |-> "get_top_keywords", n |-> n, value |-> r]
    /\ UNCHANGED <<args, service, df, column_map, yoy_df, summary,
                   trend_text, written, tried>>

\* A call analyzer.get_category_stats().
CallGetCategoryStats ==
    /\ pc = "analyzer"
    /\ IF ResetIndexRaises(column_map, "category")
       THEN /\ pc' = "raised"
            /\ error' = ValueError
            /\ ret' = ret
       ELSE /\ pc' = "returned"
            /\ error' = error
            /\ \E r \in get_category_stats(df, column_map) :
                    ret' = [op |-> "get_category_stats", value |-> r]
    /\ UNCHANGED <<args, service, df, column_map, yoy_df, summary,
                   trend_text, written, tried>>

\* A call analyzer.get_rising_keywords(prev_df, n); combined is the frame the
\* call computes on the way.
CallGetRisingKeywords ==
    /\ pc = "analyzer"
    /\ pc' = "returned"
    /\ \E n \in 0..MaxN :
         \E r \in get_rising_keywords(df, yoy_df, column_map, n) :
            ret' = [op |-> "get_rising_keywords", n |-> n, value |-> r,
                    combined |-> IF column_map.keyword = None THEN <<>>
                                 ELSE Combined(df, yoy_df, column_map)]
    /\ UNCHANGED <<args, service, df, column_map, yoy_df, summary,
                   trend_text, written, error, tried>>

\* A TrendAnalyzer and a comparison table with the same columns, every keyword
\* cell filled.
InitRising ==
    /\ pc = "analyzer"
    /\ args = None
    /\ service = "ok"
    /\ \E h \in RisingHeaders :
          /\ column_map = detect_columns(h)
          /\ df \in TablesOf(h, RisingCounts, {}, MaxRisingRows)
          /\ yoy_df \in TablesOf(h, RisingCounts, {}, MaxPrevRows)
    /\ summary = None
    /\ trend_text = None
    /\ written = {}
    /\ error = NoError
    /\ tried = [input |-> <<>>, yoy |-> <<>>]
    /\ ret = NoCall

SpecRising == InitRising /\ [][CallGetRisingKeywords]_vars

InitKeywords == InitAnalyzer(KeywordHeaders, KeywordCounts)
SpecKeywords == InitKeywords /\ [][CallGetTopKeywords]_vars

InitCategory == InitAnalyzer(CategoryHeaders, CategoryCounts)
SpecCategory == InitCategory /\ [][CallGetCategoryStats]_vars

(***************************************************************************)
(* detect_columns on every header of up to MaxColumns distinct names.      *)
(***************************************************************************)
OrderDate == <<"o", "r", "d", "e", "r", "_", "d", "a", "t", "e">>
Price == <<"p", "r", "i", "c", "e">>
WonGa == <<"won", "ga">>
Memo == <<"m", "e", "m", "o">>

DetectNames ==
    {SangPumMyeong, GeomSaekRyang, KaTeGoRi, ItemCount, CategoryCount,
     OrderDate, Price, WonGa, Memo}

DetectHeaders ==
    {h \in SeqsUpTo(DetectNames, MaxColumns) :
        \A i, j \in 1..Len(h) : i # j => h[i] # h[j]}

\* main() after load() has returned the table of an .xlsx file.
InitLoaded(tables) ==
    /\ df \in tables
    /\ args = [input |-> [ext |-> ExtXlsx, parses |-> {}, table |-> df],
               yoy |-> None, ai |-> FALSE]
    /\ service = "ok"
    /\ yoy_df = None
    /\ summary = None
    /\ trend_text = None
    /\ written = {}
    /\ error = NoError
    /\ tried = [input |-> <<>>, yoy |-> <<>>]
    /\ ret = NoCall

InitDetect ==
    /\ pc = "loaded"
    /\ column_map = None
    /\ InitLoaded({[columns |-> h, rows |-> <<>>] : h \in DetectHeaders})

SpecDetect == InitDetect /\ [][MainDetect]_vars

(***************************************************************************)
(* generate_summary and the template narrative, from the point of main()   *)
(* where the role map has been detected.                                   *)
(***************************************************************************)
SummaryCounts == {0, 7}

SummaryHeaders ==
    {<<SangPumMyeong>>, <<SangPumMyeong, GeomSaekRyang>>, <<KaTeGoRi>>,
     <<SangPumMyeong, GeomSaekRyang, KaTeGoRi>>, <<ItemCount>>}

InitSummary ==
    /\ pc = "detected"
    /\ \E h \in SummaryHeaders :
          /\ column_map = detect_columns(h)
          /\ InitLoaded(TablesOf(h, SummaryCounts, {NaN}, MaxSummaryRows))

SpecSummary == InitSummary /\ [][MainAnalyze \/ MainGenerateText]_vars

(***************************************************************************)
(* generate_html on the summaries and narratives main() builds, from the   *)
(* point of main() where the role map has been detected.                   *)
(***************************************************************************)
HtmlCounts == {0, 29, 50}

HtmlHeaders == {<<KaTeGoRi, GeomSaekRyang>>, <<KaTeGoRi>>, <<SangPumMyeong>>}

\* A call newsletter.generate_html() on the summary and the narrative.
CallGenerateHtml ==
    /\ pc = "text_done"
    /\ LET r == generate_html(summary, trend_text)
       IN  IF r.error # NoError
           THEN /\ pc' = "raised"
                /\ error' = r.error
                /\ ret' = ret
           ELSE /\ pc' = "returned"
                /\ error' = error
                /\ ret' = [op |-> "generate_html", value |-> r.html]
    /\ UNCHANGED <<args, service, df, column_map, yoy_df, summary, trend_text,
                   written, tried>>

InitHtml ==
    /\ pc = "detected"
    /\ \E h \in HtmlHeaders :
          /\ column_map = detect_columns(h)
          /\ InitLoaded(TablesOf(h, HtmlCounts, {NaN}, MaxHtmlRows))

SpecHtml ==
    InitHtml /\ [][MainAnalyze \/ MainGenerateText \/ CallGenerateHtml]_vars

(***************************************************************************)
(* Operators used to state the properties.                                 *)
(***************************************************************************)
\* Sum of f[x] over the finite set S.
RECURSIVE SumOver(_, _)
SumOver(S, f) ==
    IF S = {} THEN 0
    ELSE LET x == CHOOSE y \in S : TRUE
         IN  f[x] + SumOver(S \ {x}, f)

\* The rows of the table whose cell in column name is v.
RowsWith(table, name, v) ==
    {r \in 1..Len(table.rows) : Column(table, name)[r] = v}

\* The first row in which value v occurs in column name.
FirstRow(table, name, v) ==
    CHOOSE r \in RowsWith(table, name, v) : \A q \in RowsWith(table, name, v) : r <= q

TopCall == ret.op = "get_top_keywords"

NonIncreasing(list) ==
    \A i \in 1..(Len(list) - 1) : list[i].count >= list[i + 1].count

C2_TopAggregationByRoleMap ==
    TopCall =>
        /\ (column_map.keyword # None /\ column_map.count # None) =>
              \A i \in 1..Len(ret.value) :
                  ret.value[i].count =
                      SumOver(RowsWith(df, column_map.keyword, ret.value[i].keyword),
                              Column(df, column_map.count))
        /\ (column_map.keyword # None /\ column_map.count = None) =>
              \A i \in 1..Len(ret.value) :
                  ret.value[i].count =
                      Cardinality(RowsWith(df, column_map.keyword, ret.value[i].keyword))
        /\ column_map.keyword = None => ret.value = <<>>

\* C2 witness: the scenario rows (A,50),(B,30),(A,10) with n = 2 gave
\* [(A,60),(B,30)].
C2_Witness ==
    /\ TopCall
    /\ df = [columns |-> <<SangPumMyeong, GeomSaekRyang>>,
             rows |-> << <<1, 50>>, <<2, 30>>, <<1, 10>> >>]
    /\ ret.n = 2
    /\ ret.value = << [keyword |-> 1, count |-> 60], [keyword |-> 2, count |-> 30] >>

CatCall == ret.op = "get_category_stats"

RECURSIVE SumCounts(_, _)
SumCounts(list, i) == IF i = 0 THEN 0 ELSE SumCounts(list, i - 1) + list[i].count

\* The rows whose cell in column name is not missing.
PresentRows(table, name) ==
    {r \in 1..Len(table.rows) : Column(table, name)[r] # NaN}

(***************************************************************************)
(* C3 (as amended): with the category role assigned, the counts returned   *)
(* by get_category_stats() sum to the total of the count column over the   *)
(* rows whose category value is present when the count role is assigned,   *)
(* and to the number of rows whose category value is present otherwise.    *)
(***************************************************************************)
C3_CategoryTotalOverPresentRows ==
    (CatCall /\ column_map.category # None) =>
        SumCounts(ret.value, Len(ret.value)) =
            IF column_map.count # None
            THEN SumOver(PresentRows(df, column_map.category), Column(df, column_map.count))
            ELSE Cardinality(PresentRows(df, column_map.category))

\* C3 witness: category statistics with the count role assigned of a table
\* that has a row with a missing category, a row with a category, and a
\* positive total.
C3_Witness ==
    /\ CatCall
    /\ column_map.category # None /\ column_map.count # None
    /\ \E r \in 1..Len(df.rows) : Column(df, column_map.category)[r] = NaN
    /\ Len(ret.value) = 2
    /\ SumCounts(ret.value, Len(ret.value)) > 0

\* C3 as stated: the counts sum to the total over all rows, missing category
\* or not.
C3_Original_CategoryTotalOverAllRows ==
    (CatCall /\ column_map.category # None) =>
        SumCounts(ret.value, Len(ret.value)) =
            IF column_map.count # None
            THEN SumOver(1..Len(df.rows), Column(df, column_map.count))
            ELSE Len(df.rows)

RisingCall == ret.op = "get_rising_keywords" /\ column_map.keyword # None

\* The two conditions of a rising keyword, on a row of the joined frame.
Qualifies(row, combined) ==
    /\ row.change_rate10 >= 1000
    /\ AtLeastQuantile30(row.current, [i \in 1..Len(combined) |-> combined[i].current])

(***************************************************************************)
(* C4: get_rising_keywords(prev, n) returns exactly the first n, in        *)
(* descending change-rate order, of the keywords of the joined frame that  *)
(* have change rate >= 100 and current count >= the 30th percentile of the *)
(* current counts: nothing else is returned and no qualifying keyword with *)
(* a higher change rate than a returned one is left out.                   *)
(***************************************************************************)
C4_RisingIsTopNOfQualifying ==
    RisingCall =>
        LET rows == Range(ret.combined)
            good == {row \in rows : Qualifies(row, ret.combined)}
        IN  /\ Range(ret.value) \subseteq good
            /\ Cardinality(Range(ret.value)) = Len(ret.value)
            /\ Len(ret.value) = Min(ret.n, Cardinality(good))
            /\ \A i \in 1..(Len(ret.value) - 1) :
                  ret.value[i].change_rate10 >= ret.value[i + 1].change_rate10
            /\ \A q \in good \ Range(ret.value) : \A r \in Range(ret.value) :
                  q.change_rate10 <= r.change_rate10

\* C4 witness: current {A:20, B:5} against previous {A:5}: B has the higher
\* change rate but is below the percentile, and A alone is returned.
C4_Witness ==
    /\ RisingCall
    /\ ret.n = 2
    /\ ret.value = << [keyword |-> 1, current |-> 20, previous |-> 5,
                       change_rate10 |-> 3000] >>
    /\ \E row \in Range(ret.combined) :
          row.keyword = 2 /\ row.current = 5 /\ row.change_rate10 = 5000

\* The count of keyword k in a table: the sum of its count cells, or its
\* number of rows without a count role.
KeywordCount(table, col, k) ==
    IF col.count # None
    THEN SumOver(RowsWith(table, col.keyword, k), Column(table, col.count))
    ELSE Cardinality(RowsWith(table, col.keyword, k))

Max(a, b) == IF a >= b THEN a ELSE b

(***************************************************************************)
(* C5: for every keyword of the current or the comparison table the change *)
(* rate computed by get_rising_keywords is (current - previous) /          *)
(* max(previous, 1) * 100 rounded to one decimal (it is a number of tenths *)
(* within 0.05 of the exact value), the two counts being aggregated per    *)
(* table with 0 for a keyword the table lacks; a keyword absent from the   *)
(* comparison table has the rate current * 100.                            *)
(***************************************************************************)
C5_ChangeRateFormula ==
    RisingCall =>
        LET keywords == (Range(Column(df, column_map.keyword))
                         \cup Range(Column(yoy_df, column_map.keyword))) \ {NaN}
        IN  /\ {row.keyword : row \in Range(ret.combined)} = keywords
            /\ Len(ret.combined) = Cardinality(keywords)
            /\ \A row \in Range(ret.combined) :
                  LET c == KeywordCount(df, column_map, row.keyword)
                      p == KeywordCount(yoy_df, column_map, row.keyword)
                      d == Max(p, 1)
                      diff == row.change_rate10 * d - 1000 * (c - p)
                  IN  /\ row.current = c
                      /\ row.previous = p
                      /\ 2 * diff <= d /\ -2 * diff <= d
                      /\ (RowsWith(yoy_df, column_map.keyword, row.keyword) = {}) =>
                            row.change_rate10 = 1000 * c

\* C5 witness: current {A:20, B:5}, previous {A:5, B:0} gave A = 300 and
\* B = 500.
C5_Witness ==
    /\ RisingCall
    /\ ret.combined = << [keyword |-> 1, current |-> 20, previous |-> 5,
                          change_rate10 |-> 3000],
                         [keyword |-> 2, current |-> 5, previous |-> 0,
                          change_rate10 |-> 5000] >>

\* The file cannot be loaded: its extension is not recognised, or it is a
\* .csv file that no candidate encoding parses.
IsCsv(file) == Lower(file.ext) = ExtCsv

Fatal(file) ==
    \/ Lower(file.ext) \notin {ExtXlsx, ExtXls, ExtCsv}
    \/ IsCsv(file) /\ file.parses = {}

\* The positions of main() after the narrative text has been generated.
AfterText == {"text_done", "html_saved", "excel_saved", "done"}

\* The run ended by an exception raised after the narrative was generated.
AbortedAfterText == pc = "aborted" /\ error.type = "ZeroDivisionError"

\* The narrative of a run in external-service mode whose collaborator failed
\* is the text of the template strategy for the same summary.
FallbackReturnsTemplate ==
    (pc \in AfterText \/ AbortedAfterText) /\ args.ai /\ service # "ok"
        => trend_text = _generate_template(summary)

\* load on a .csv path tried the encodings in the order of the list and
\* stopped at the first that parses.
EncodingsTriedInOrder ==
    pc # "start" /\ IsCsv(args.input) =>
        LET t == tried.input
            p == args.input.parses
        IN  /\ t = SubSeq(Encodings, 1, Len(t))
            /\ \A i \in 1..(Len(t) - 1) : t[i] \notin p
            /\ p # {} => t # <<>> /\ t[Len(t)] \in p /\ df # None
            /\ p = {} => t = Encodings

(***************************************************************************)
(* C6: when the narrative mode is external-service and the collaborator    *)
(* fails (import, client construction, request, malformed response),       *)
(* generate_trend_text returns the template text for the same summary and  *)
(* the run does not abort on its way to writing the HTML, spreadsheet and  *)
(* JSON outputs.                                                           *)
(***************************************************************************)
C6_FallbackRunWritesOutputs ==
    /\ FallbackReturnsTemplate
    /\ args.ai /\ service # "ok" => ~AbortedAfterText

(***************************************************************************)
(* C7: load on a .csv path tries utf-8, cp949, euc-kr in that order and    *)
(* stops at the first that parses; when none parses, load fails with an    *)
(* unsupported-encoding error.                                             *)
(***************************************************************************)
C7_CsvEncodingsInOrderElseUnsupportedEncoding ==
    /\ EncodingsTriedInOrder
    /\ pc # "start" /\ IsCsv(args.input) /\ args.input.parses = {} =>
          /\ tried.input = Encodings
          /\ pc = "aborted"
          /\ error.type = "UnsupportedEncoding"

(***************************************************************************)
(* C8: if loading the input file or the comparison file fails fatally the  *)
(* run aborts with no output file written; every output write happens     *)
(* only after all loading, analysis and narrative generation have          *)
(* completed.                                                              *)
(***************************************************************************)
C8_NoOutputBeforeLoadingAnalysisNarrative ==
    /\ pc # "start" /\ Fatal(args.input) => pc = "aborted" /\ written = {}
    /\ /\ args.yoy # None
       /\ Fatal(args.yoy)
       /\ pc \notin {"start", "loaded", "detected", "analyzed"}
       => pc = "aborted" /\ written = {}
    /\ written # {} =>
          /\ pc \in {"html_saved", "excel_saved", "done"}
          /\ ~Fatal(args.input) /\ df = NormalizeColumns(args.input.table)
          /\ args.yoy # None =>
                /\ ~Fatal(args.yoy)
                /\ yoy_df = NormalizeColumns(args.yoy.table)
                /\ "rising_keywords" \in DOMAIN summary
          /\ summary # None /\ "total_records" \in DOMAIN summary
          /\ trend_text # None

\* C8 witness: the run aborted at the load of the comparison file, after the
\* input was loaded and summarised, and no output file exists.
C8_Witness ==
    /\ pc = "aborted"
    /\ args.yoy # None /\ Fatal(args.yoy)
    /\ df # None /\ summary # None
    /\ written = {}

\* The candidate list of each role.
RoleCandidates ==
    [keyword |-> keyword_candidates, count |-> count_candidates,
     category |-> category_candidates, date |-> date_candidates,
     price |-> price_candidates]

\* The positions of the columns whose name holds a synonym of the role.
Matches(columns, role) ==
    {i \in 1..Len(columns) :
        \E k \in 1..Len(RoleCandidates[role]) :
            Contains(columns[i], RoleCandidates[role][k])}

(***************************************************************************)
(* C9: detect_columns maps each role (keyword, count, category, date,      *)
(* price) to the first column in table order whose name contains a synonym *)
(* of the role as a substring, and to None, without error, when no column  *)
(* matches.                                                                *)
(***************************************************************************)
C9_FirstMatchingColumnPerRole ==
    pc = "detected" =>
        /\ error = NoError
        /\ \A role \in DOMAIN RoleCandidates :
              LET m == Matches(df.columns, role)
              IN  IF m = {}
                  THEN column_map[role] = None
                  ELSE \E i \in m :
                          /\ \A j \in m : i <= j
                          /\ column_map[role] = df.columns[i]

\* C9 witness: the columns [sang-pum-myeong, geom-saek-ryang] were mapped to
\* keyword and count, the other roles unassigned.
C9_Witness ==
    /\ pc = "detected"
    /\ df.columns = <<SangPumMyeong, GeomSaekRyang>>
    /\ column_map.keyword = SangPumMyeong
    /\ column_map.count = GeomSaekRyang
    /\ column_map.category = None /\ column_map.date = None
    /\ column_map.price = None

(***************************************************************************)
(* C10: the summary of generate_summary has total_records equal to the row *)
(* count and holds top_1_keyword and top_1_count exactly when top_keywords *)
(* is non-empty, equal to the keyword and count of its first entry; for a  *)
(* 0-row table total_records = 0, both lists are empty, the top-1 fields   *)
(* are absent and the template narrative is a non-empty text.              *)
(***************************************************************************)
C10_SummaryTotalAndTop1 ==
    pc \in {"analyzed", "text_done"} =>
        /\ summary.total_records = Len(df.rows)
        /\ "top_1_keyword" \in DOMAIN summary <=> summary.top_keywords # <<>>
        /\ "top_1_count" \in DOMAIN summary <=> summary.top_keywords # <<>>
        /\ summary.top_keywords # <<>> =>
              /\ summary.top_1_keyword = summary.top_keywords[1].keyword
              /\ summary.top_1_count = summary.top_keywords[1].count
        /\ df.rows = <<>> =>
              /\ summary.total_records = 0
              /\ summary.top_keywords = <<>>
              /\ summary.category_stats = <<>>
              /\ pc = "text_done" =>
                    /\ trend_text = _generate_template(summary)
                    /\ trend_text # <<>>

\* C10 witness: a summary whose top_keywords list has two entries of
\* different counts, with the top-1 fields those of the first entry.
C10_Witness ==
    /\ pc = "text_done"
    /\ Len(summary.top_keywords) = 2
    /\ summary.top_keywords[1].count # summary.top_keywords[2].count
    /\ summary.top_1_keyword = summary.top_keywords[1].keyword
    /\ summary.top_1_count = summary.top_keywords[1].count

\* A call of generate_html has ended (returned or raised).
HtmlCallEnded == pc \in {"returned", "raised"}

\* generate_html completes without error whenever the first category count is
\* positive, and the category section is present exactly when category_stats
\* is non-empty.
HtmlCompletesOnPositiveMax ==
    HtmlCallEnded =>
        LET cs == summary.category_stats
        IN  /\ cs # <<>> /\ cs[1].count > 0 => pc = "returned"
            /\ pc = "returned" => (ret.value.category_section <=> cs # <<>>)

(***************************************************************************)
(* C11: for every summary whose category_stats is non-empty (every count 0 *)
(* included) generate_html completes without error and renders for each of *)
(* the first 5 categories a bar whose width is the integer part of         *)
(* count / max-category-count * 100, between 0 and 100, the first bar at   *)
(* 100; the category section is omitted only when the list is empty.       *)
(***************************************************************************)
C11_HtmlBarsIntegerPercentOfMax ==
    HtmlCallEnded =>
        LET cs == summary.category_stats
        IN  /\ cs # <<>> =>
                /\ pc = "returned"
                /\ ret.value.category_section
                /\ Len(ret.value.category_bars) = Min(HtmlTopCategories, Len(cs))
                /\ ret.value.category_bars[1].width = 100
                /\ \A i \in 1..Len(ret.value.category_bars) :
                      LET bar == ret.value.category_bars[i]
                      IN  /\ bar.category = cs[i].category
                          /\ bar.width \in 0..100
                          /\ cs[1].count > 0 =>
                                bar.width = ExactPercent(cs[i].count, cs[1].count)
            /\ cs = <<>> => pc = "returned" /\ ~ret.value.category_section

=============================================================================
